---- MODULE Spec2Model ----
(***************************************************************************)
(* Broker integration layer of autohub1989/project: the Shoonya adapter     *)
(* and its session cache (src/server/services/shoonyaService.js).           *)
(*                                                                         *)
(* Every public method of ShoonyaService is an async function; it runs      *)
(* atomically between two awaits on Node's single-threaded event loop.      *)
(* A call is therefore modelled as a small process whose pc names the       *)
(* await it is suspended on:                                                *)
(*    "db"    - db.getAsync(...) in getShoonyaInstance (line 276)           *)
(*    "probe" - axios.post for 'userdetails' under testConnection (254)     *)
(*    "http"  - axios.post of the operation's own request (396, 705)        *)
(* and one action per resumption.                                           *)
(***************************************************************************)
EXTENDS Integers, Sequences, FiniteSets, TLC

\* ---------------------------------------------------------------- bounds
MaxCalls == 2        \* calls of the session manager in one behaviour
MaxTime == 2         \* the clock runs from 1 to MaxTime
MaxOrderCalls == 1   \* placeOrder calls in one behaviour of SpecOrders
MaxAdapterCalls == 1 \* adapter calls in one behaviour of SpecAdapter
MaxFetches == 1      \* fetches the Positions component starts in one behaviour
MaxOverlap == 2      \* fetches of the Positions component with live updates
MaxPolls == 3        \* polls the order status service starts in one behaviour

Calls == 1..MaxCalls
\* The connection ids callers pass: two, so that calls can meet on one id
\* or go to different ids.
ConnIds == {1, 2}

VARIABLES
    shoonyaInstances,   \* this.shoonyaInstances: connection id -> instance
    db,                 \* broker_connections rows, by id
    now,                \* Math.floor(Date.now() / 1000)
    calls,              \* the async calls: position, locals, outcome
    handedOut,          \* history: per id, the instance getShoonyaInstance last
                        \* resolved with; NoInst again once the entry is deleted
    clearedSince,       \* history: clearCachedInstance(id) ran, no getShoonyaInstance(id) since
    brokerOrders,       \* orders the broker accepted: norenordno and placing call
    trackedOrders,      \* persisted TrackedOrder rows
    gen,                \* WebhookSyntaxGenerator: customFields, webhookSyntax
    view,               \* Positions component: its state and its fetches
    proc,               \* the server process: bootstrap and its handlers
    auth                \* utils/auth.ts: localStorage's authToken, the last answer

serviceVars == <<shoonyaInstances, db, now, calls, handedOut, clearedSince,
                 brokerOrders, trackedOrders>>

vars == <<shoonyaInstances, db, now, calls, handedOut, clearedSince,
          brokerOrders, trackedOrders, gen, view, proc, auth>>

\* ------------------------------------------------------------ data shapes
\* An instance is an object: oid is its identity (the call that built it).
NoInst == [oid |-> 0, userId |-> 0]

\* A broker_connections row. api_secret / access_token: whether the column is
\* set; access_token_expires_at: 0 is NULL.
Row(present, active, secret, token, exp, uid) ==
    [present |-> present, is_active |-> active, api_secret |-> secret,
     access_token |-> token, access_token_expires_at |-> exp,
     user_id_broker |-> uid]

NullRow == Row(FALSE, FALSE, FALSE, FALSE, 0, 0)

\* Absent: a parameter the caller did not give (undefined).
Absent == -1
FalsyNum(x) == x \in {Absent, 0}
FalsyStr(s) == s = ""

NoParams ==
    [tsym |-> "", trantype |-> "", qty |-> Absent, prctyp |-> "",
     prc |-> Absent, trgprc |-> Absent, prd |-> "", norenordno |-> Absent]

NoOrder ==
    [tsym |-> "", qty |-> 0, prc |-> "", prd |-> "", trantype |-> "",
     prctyp |-> "", trgprc |-> "unset"]

NoResult == [status |-> "none", order_id |-> 0, err |-> <<>>]

IdleCall ==
    [op |-> "none", id |-> 0, params |-> NoParams, pc |-> "idle",
     inst |-> NoInst, sess |-> "none", sessErr |-> <<>>, path |-> "none",
     probe |-> "none", http |-> "none", sent |-> <<>>, order |-> NoOrder,
     decrypts |-> 0, loads |-> 0, result |-> NoResult, stale |-> FALSE]

\* What the broker (or the transport) answers to one axios.post.
Responses == {"Ok", "NotOk", "Transport"}

\* ------------------------------------------------------- pure helpers
\* Number.prototype.toString on the small integers the model uses.
DecStr(n) ==
    CASE n = 0 -> "0" [] n = 1 -> "1" [] n = 2 -> "2" [] n = 3 -> "3"
      [] n = 4 -> "4" [] n = 5 -> "5" [] n = 6 -> "6" [] n = 7 -> "7"
      [] n = 8 -> "8" [] n = 9 -> "9"
      [] n = 2450 -> "2450" [] n = 2500 -> "2500" [] OTHER -> "NaN"

\* makeApiRequest: stat 'Ok' returns the data; anything else throws.
\* The thrown value is a plain Error; the model keeps its message as the
\* list of prefixes the catch blocks put in front of it.
ApiRequestError(resp) ==
    CASE resp = "NotOk" -> <<"emsg">>
      [] resp = "AuthNotOk" -> <<"emsgSessionExpired">>
      [] OTHER -> <<"AxiosError">>

\* makeApiCallWithInstance's catch: `API call to ${route} failed: ...`
ApiCallError(resp) == <<"ApiCallFailed">> \o ApiRequestError(resp)

\* testConnection's catch: `Connection test failed: ...`
TestConnectionError(resp) == <<"ConnTestFailed">> \o ApiCallError(resp)

\* The class of the thrown value: makeApiRequest rethrows axios's own error
\* (line 220); every other throw on the way to the caller is
\* `new Error(message)` (lines 207, 309, 352, 262, 407 and alike).
ErrorClass(e) == IF e = <<"AxiosError">> THEN "AxiosError" ELSE "Error"

\* initializeShoonya's catch: `Failed to initialize Shoonya connection: ...`
InitError(e) == <<"InitFailed">> \o e

\* A check that takes no token for expired.
TokenExpiredNever(row, t) == FALSE

TokenExpired(row, t) ==
    row.access_token_expires_at # 0 /\ row.access_token_expires_at < t

\* ------------------------------------------------- session cache (Map)
\* this.shoonyaInstances.has(id), line 270
CacheHasNever(id) == FALSE
CacheHas(id) == shoonyaInstances[id] # NoInst

\* clearCachedInstance, lines 721-726
ClearCachedInstanceKeeps(cache, id) == cache
\* this.shoonyaInstances.clear() in the place of delete(id).
ClearCachedInstanceAll(cache, id) == [i \in DOMAIN cache |-> NoInst]
ClearCachedInstance(cache, id) ==
    IF cache[id] # NoInst THEN [cache EXCEPT ![id] = NoInst] ELSE cache

\* SELECT * FROM broker_connections WHERE id = ? AND is_active = 1
\* (lines 276-279): the row, or nothing.
DbGetIgnoringActive(id) == IF db[id].present THEN db[id] ELSE NullRow
DbGet(id) ==
    IF db[id].present /\ db[id].is_active THEN db[id] ELSE NullRow

\* initializeShoonya, lines 254-256: the cache after the probe answered.
\* The instance is stored only on the line after `await testConnection`.
CacheAfterProbe(cache, id, inst, resp) ==
    IF resp = "Ok" THEN [cache EXCEPT ![id] = inst] ELSE cache

\* ------------------------------------------------------- placeOrder
\* Lines 375-392: the request body built from the caller's parameters.
ShoonyaOrderData(p) ==
    [tsym |-> p.tsym,
     qty |-> p.qty,
     prc |-> IF p.prctyp = "LMT"
             THEN DecStr(IF FalsyNum(p.prc) THEN 0 ELSE p.prc)
             ELSE "0",
     prd |-> IF FalsyStr(p.prd) THEN "I" ELSE p.prd,
     trantype |-> p.trantype,
     prctyp |-> IF FalsyStr(p.prctyp) THEN "MKT" ELSE p.prctyp,
     trgprc |-> IF p.prctyp \in {"SL-LMT", "SL-MKT"} /\ ~FalsyNum(p.trgprc)
                THEN DecStr(p.trgprc)
                ELSE "unset"]

\* Lines 400-404: { success: true, order_id: response.norenordno, ... }
PlaceOrderResultNoId(norenordno) ==
    [status |-> "ok", order_id |-> 0, err |-> <<>>]
PlaceOrderResult(norenordno) ==
    [status |-> "ok", order_id |-> norenordno, err |-> <<>>]

Failed(e) == [status |-> "error", order_id |-> 0, err |-> e]

\* A placeOrder without the checks of lines 364-372.
PlaceOrderBodyUnvalidated(k) ==
    [k EXCEPT !.order = ShoonyaOrderData(k.params),
              !.sent = Append(@, "placeorder"),
              !.pc = "http"]

\* Lines 363-396: what placeOrder does once it holds the instance.
PlaceOrderBody(k) ==
    LET p == k.params
        reject(m) == [k EXCEPT !.pc = "done",
                               !.result = Failed(<<"OrderPlacementFailed", m>>)]
    IN IF FalsyStr(p.tsym) THEN reject("TsymRequired")
       ELSE IF FalsyStr(p.trantype) THEN reject("TrantypeRequired")
       ELSE IF FalsyNum(p.qty) THEN reject("QtyRequired")
       ELSE [k EXCEPT !.order = ShoonyaOrderData(p),
                      !.sent = Append(@, "placeorder"),
                      !.pc = "http"]

\* The route each operation hands to makeApiCallWithInstance.
Route(op) ==
    CASE op \in {"placeOrder", "routerPlaceOrder"} -> "placeorder"
      [] op = "modifyOrder" -> "modifyorder"
      [] op = "cancelOrder" -> "cancelorder"
      [] op = "getProfile" -> "userdetails"
      [] op = "getPositions" -> "positions"
      [] op = "getHoldings" -> "holdings"
      [] op = "getOrders" -> "orderbook"
      [] op = "getOrderStatus" -> "singleorderhistory"
      [] op = "logout" -> "logout"

\* modifyOrder, lines 418-444, once it holds the instance.
ModifyOrderBody(k) ==
    LET p == k.params
    IN IF FalsyNum(p.norenordno)
       THEN [k EXCEPT !.pc = "done",
                      !.result = Failed(<<"OrderModificationFailed",
                                          "NorenordnoRequired">>)]
       ELSE [k EXCEPT !.order =
                          [NoOrder EXCEPT
                              !.qty = IF FalsyNum(p.qty) THEN 0 ELSE p.qty,
                              !.prc = IF FalsyNum(p.prc) THEN "" ELSE DecStr(p.prc),
                              !.trgprc = IF FalsyNum(p.trgprc) THEN "unset"
                                         ELSE DecStr(p.trgprc)],
                      !.sent = Append(@, "modifyorder"),
                      !.pc = "http"]

\* The Router of spec section 4.4 (routes/*.js are not among the sources)
\* delegates to the adapter and, for a placed order, persists a TrackedOrder
\* in PENDING state before it returns the result.
Tracked(k2) ==
    [connection_id |-> k2.id, broker_order_id |-> k2.result.order_id,
     status |-> "PENDING"]

\* ------------------------------------------------ after getShoonyaInstance
\* The caller's code from `await this.getShoonyaInstance(id)` resolving up
\* to its next await (or its return).
AfterSession(k) ==
    CASE k.op = "getSession" ->
           [k EXCEPT !.pc = "done", !.result = [NoResult EXCEPT !.status = "ok"]]
      [] k.op \in {"placeOrder", "routerPlaceOrder"} -> PlaceOrderBody(k)
      [] k.op = "modifyOrder" -> ModifyOrderBody(k)
      [] k.op = "logout" ->
           [k EXCEPT !.sent = Append(@, "logout"), !.pc = "http"]
      [] OTHER -> [k EXCEPT !.sent = Append(@, Route(k.op)), !.pc = "http"]

\* The caller's catch block when getShoonyaInstance rejects with e.
OpError(op, e) ==
    CASE op = "getSession" -> e
      [] op \in {"placeOrder", "routerPlaceOrder"} -> <<"OrderPlacementFailed">> \o e
      [] op = "modifyOrder" -> <<"OrderModificationFailed">> \o e
      [] op = "cancelOrder" -> <<"OrderCancellationFailed">> \o e
      [] op = "getProfile" -> <<"GetProfileFailed">> \o e
      [] op = "getPositions" -> <<"GetPositionsFailed">> \o e
      [] op = "getHoldings" -> <<"GetHoldingsFailed">> \o e
      [] op = "getOrders" -> <<"GetOrdersFailed">> \o e
      [] op = "getOrderStatus" -> <<"GetOrderStatusFailed">> \o e
      [] op = "logout" -> <<"LogoutFailed">> \o e

SessionFailed(k, e) ==
    [k EXCEPT !.pc = "done", !.sess = "fail", !.sessErr = e,
              !.result = Failed(OpError(k.op, e))]

\* initializeShoonya, lines 225-254, up to the probe being sent. self is the
\* identity of the instance object built on line 246.
InitializeShoonya(k, row, self) ==
    IF ~row.api_secret THEN SessionFailed(k, InitError(<<"SecretMissing">>))
    ELSE IF ~row.access_token THEN SessionFailed(k, InitError(<<"TokenMissing">>))
    ELSE IF TokenExpired(row, now) THEN SessionFailed(k, InitError(<<"TokenExpired">>))
    ELSE [k EXCEPT !.decrypts = 2,
                   !.inst = [oid |-> self, userId |-> row.user_id_broker],
                   !.probe = "sent",
                   !.sent = Append(@, "userdetails"),
                   !.pc = "probe"]

RowUsable(id) == db[id].present /\ db[id].is_active

\* getShoonyaInstance, lines 267-279, up to its first await.
GetShoonyaInstance(k) ==
    IF CacheHas(k.id)
    THEN AfterSession([k EXCEPT !.path = "cached",
                                !.inst = shoonyaInstances[k.id],
                                !.sess = "ok"])
    ELSE [k EXCEPT !.path = "init", !.loads = 1, !.pc = "db"]

\* ------------------------------------------------------------- actions
\* History: the calls for id that are between their start and the end of
\* their initialization when a session of id is removed from the cache.
MarkStale(cs, id, removed) ==
    IF removed
    THEN [c \in DOMAIN cs |->
             IF cs[c].id = id /\ cs[c].pc \in {"db", "probe"}
             THEN [cs[c] EXCEPT !.stale = TRUE] ELSE cs[c]]
    ELSE cs

\* The state after one resumption of call c: k2 is the call afterwards,
\* cache1 the cache after the step's own writes. logout ends, on success
\* (line 708) and in its catch (line 715), with clearCachedInstance(id).
Commit(c, k2, cache1, begins) ==
    LET id == k2.id
        cache2 == IF k2.pc = "done" /\ k2.op = "logout"
                  THEN ClearCachedInstance(cache1, id) ELSE cache1
        resolved == k2.sess = "ok" /\ calls[c].sess # "ok"
        deleted(i) == cache2[i] = NoInst
                         /\ (shoonyaInstances[i] # NoInst \/ cache1[i] # NoInst)
    IN /\ calls' = MarkStale([calls EXCEPT ![c] = k2], id,
                             cache1[id] # NoInst /\ cache2[id] = NoInst)
       /\ shoonyaInstances' = cache2
       /\ handedOut' = [i \in ConnIds |->
                           IF deleted(i) THEN NoInst
                           ELSE IF resolved /\ i = id THEN k2.inst
                           ELSE handedOut[i]]
       /\ clearedSince' =
              IF k2.pc = "done" /\ k2.op = "logout"
              THEN [clearedSince EXCEPT ![id] = TRUE]
              ELSE IF begins THEN [clearedSince EXCEPT ![id] = FALSE]
              ELSE clearedSince

\* A caller invokes op(id, p). Call slots are taken in order.
StartCall(c, op, id, p) ==
    /\ calls[c].pc = "idle"
    /\ \A d \in Calls : d < c => calls[d].pc # "idle"
    /\ Commit(c, GetShoonyaInstance([IdleCall EXCEPT !.op = op, !.id = id,
                                                      !.params = p]),
              shoonyaInstances, TRUE)
    /\ UNCHANGED <<db, now, brokerOrders, trackedOrders,
                   gen, view, proc, auth>>

\* db.getAsync resolves (line 276); lines 281-287 and initializeShoonya
\* run up to the probe's axios.post.
DbReturn(c) ==
    /\ calls[c].pc = "db"
    /\ LET k == calls[c]
           row == DbGet(k.id)
       IN Commit(c,
                 IF row = NullRow
                 THEN SessionFailed(k, <<"NotFoundOrInactive">>)
                 ELSE InitializeShoonya(k, row, c),
                 shoonyaInstances, FALSE)
    /\ UNCHANGED <<db, now, brokerOrders, trackedOrders,
                   gen, view, proc, auth>>

\* The probe's axios.post settles; initializeShoonya lines 254-263.
ProbeReturn(c, resp) ==
    /\ calls[c].pc = "probe"
    /\ LET k == [calls[c] EXCEPT !.probe = resp]
           id == k.id
       IN Commit(c,
                 IF resp = "Ok"
                 THEN AfterSession([k EXCEPT !.sess = "ok"])
                 ELSE SessionFailed(k, InitError(TestConnectionError(resp))),
                 CacheAfterProbe(shoonyaInstances, id, k.inst, resp), FALSE)
    /\ UNCHANGED <<db, now, brokerOrders, trackedOrders,
                   gen, view, proc, auth>>

\* makeApiCallWithInstance threw (lines 307-310, from 207 or 220): the
\* operation's catch wraps the error and throws it to the caller. Nothing
\* is sent again.
HttpFailedRetries(k, resp) ==
    IF Cardinality({i \in 1..Len(k.sent) : k.sent[i] = Route(k.op)}) < 2
    THEN [k EXCEPT !.sent = Append(@, Route(k.op))]
    ELSE [k EXCEPT !.pc = "done",
                   !.result = Failed(OpError(k.op, ApiCallError(resp)))]
HttpFailedSwallowed(k, resp) ==
    [k EXCEPT !.pc = "done", !.result = [NoResult EXCEPT !.status = "ok"]]
HttpFailed(k, resp) ==
    [k EXCEPT !.pc = "done",
              !.result = Failed(OpError(k.op, ApiCallError(resp)))]

\* The operation's own axios.post settles (placeOrder 396-408, modifyOrder
\* 444-456, the others alike, logout 705-717). modifyOrder and cancelOrder
\* return response.result, the order number they were given.
HttpReturn(c, resp) ==
    /\ calls[c].pc = "http"
    /\ LET k == [calls[c] EXCEPT !.http = resp]
           placed == k.op \in {"placeOrder", "routerPlaceOrder"} /\ resp = "Ok"
           k2 == IF resp # "Ok"
                 THEN HttpFailed(k, resp)
                 ELSE IF placed
                 THEN [k EXCEPT !.pc = "done", !.result = PlaceOrderResult(c)]
                 ELSE IF k.op \in {"modifyOrder", "cancelOrder"}
                 THEN [k EXCEPT !.pc = "done",
                                !.result = [NoResult EXCEPT
                                               !.status = "ok",
                                               !.order_id = k.params.norenordno]]
                 ELSE [k EXCEPT !.pc = "done",
                                !.result = [NoResult EXCEPT !.status = "ok"]]
       IN /\ Commit(c, k2, shoonyaInstances, FALSE)
          /\ brokerOrders' =
                 IF placed
                 THEN brokerOrders \cup {[norenordno |-> c, connection_id |-> k.id]}
                 ELSE brokerOrders
          /\ trackedOrders' =
                 IF placed /\ k.op = "routerPlaceOrder"
                 THEN trackedOrders \cup {Tracked(k2)}
                 ELSE trackedOrders
    /\ UNCHANGED <<db, now, gen, view, proc, auth>>

\* Some caller invokes the public clearCachedInstance(id) (lines 721-726).
ClearCall(id) ==
    /\ shoonyaInstances' = ClearCachedInstance(shoonyaInstances, id)
    /\ handedOut' = [i \in ConnIds |->
                        IF shoonyaInstances[i] # NoInst /\ shoonyaInstances'[i] = NoInst
                        THEN NoInst ELSE handedOut[i]]
    /\ clearedSince' = [clearedSince EXCEPT ![id] = TRUE]
    /\ calls' = MarkStale(calls, id, shoonyaInstances[id] # NoInst)
    /\ UNCHANGED <<db, now, brokerOrders, trackedOrders,
                   gen, view, proc, auth>>

\* Time passes (Date.now(), line 238).
Tick ==
    /\ now < MaxTime
    /\ now' = now + 1
    /\ UNCHANGED <<shoonyaInstances, db, calls, handedOut, clearedSince,
                   brokerOrders, trackedOrders,
                   gen, view, proc, auth>>

\* Persistence owns the rows: a connection is deactivated (is_active = 0).
Deactivate(id) ==
    /\ db[id].present /\ db[id].is_active
    /\ db' = [db EXCEPT ![id].is_active = FALSE]
    /\ UNCHANGED <<shoonyaInstances, now, calls, handedOut, clearedSince,
                   brokerOrders, trackedOrders,
                   gen, view, proc, auth>>

\* ------------------------------------------- WebhookSyntaxGenerator
\* customFields as useState sets them (lines 32-48), whether the effect of
\* lines 58-62 has generated the syntax for them, and the example last
\* generated (webhookSyntax is null at first).
NoSyntax == [order_type |-> "", product |-> "", price |-> "", trigger_price |-> ""]

NoGen ==
    [customFields |-> [order_type |-> "MARKET", product |-> "MIS", price |-> 0,
                       trigger_price |-> 0],
     generated |-> FALSE,
     example |-> NoSyntax]

\* generateSyntax, lines 167-177: the example built for Shoonya.
\* parseFloat(x) || d: the number typed, or d when the field is empty or 0.
ShoonyaOrderType(order_type) ==
    IF order_type = "MARKET" THEN "MKT"
    ELSE IF order_type = "LIMIT" THEN "LMT" ELSE "MKT"

ShoonyaProduct(product) ==
    IF product = "MIS" THEN "I"
    ELSE IF product = "CNC" THEN "C" ELSE "I"

ShoonyaExample(cf) ==
    [order_type |-> ShoonyaOrderType(cf.order_type),
     product |-> ShoonyaProduct(cf.product),
     price |-> IF cf.order_type = "LIMIT"
               THEN DecStr(IF FalsyNum(cf.price) THEN 2500 ELSE cf.price)
               ELSE "0",
     trigger_price |-> IF cf.order_type \in {"SL", "SL-M"}
                       THEN DecStr(IF FalsyNum(cf.trigger_price) THEN 2450
                                   ELSE cf.trigger_price)
                       ELSE "0"]

\* The values the form's selects (lines 440-443, 454-456) and number inputs
\* (lines 478-495) offer; an emptied number input is Absent.
FormOrderTypes == {"MARKET", "LIMIT", "SL", "SL-M"}
FormProducts == {"MIS", "CNC", "NRML"}
FormNumbers == {Absent, 0, 5}

FormValues(f) ==
    CASE f = "order_type" -> FormOrderTypes
      [] f = "product" -> FormProducts
      [] OTHER -> FormNumbers

\* The user changes field f of the form to v (setCustomFields); the effect
\* of lines 58-62 is then due.
SetCustomField(f, v) ==
    /\ gen.customFields[f] # v
    /\ gen' = [gen EXCEPT !.customFields[f] = v, !.generated = FALSE]
    /\ UNCHANGED <<serviceVars, view, proc, auth>>

\* The effect runs generateSyntax with Shoonya selected (lines 125-199).
GenerateSyntax ==
    /\ ~gen.generated
    /\ gen' = [gen EXCEPT !.generated = TRUE,
                          !.example = ShoonyaExample(gen.customFields)]
    /\ UNCHANGED <<serviceVars, view, proc, auth>>

\* ---------------------------------------------------- Positions component
\* a || b on numbers, Math.abs.
OrNum(a, b) == IF FalsyNum(a) THEN b ELSE a
OrStr(a, b) == IF FalsyStr(a) THEN b ELSE a
Abs(x) == IF x < 0 THEN 0 - x ELSE x

\* A position or holding as a broker route returns it: any of the alias
\* fields may be missing (Absent, "").
NoRaw ==
    [symbol |-> "", tradingsymbol |-> "", quantity |-> Absent,
     net_quantity |-> Absent, average_price |-> Absent, buy_price |-> Absent,
     price |-> Absent, current_price |-> Absent, last_price |-> Absent,
     ltp |-> Absent, pnl |-> Absent, unrealised |-> Absent]

\* Lines 144-156 (positions) and 204-215 (holdings): one formatted item.
\* A holding's quantity has no net_quantity alias.
FormatItem(kind, raw, conn) ==
    [symbol |-> OrStr(raw.symbol, raw.tradingsymbol),
     quantity |-> IF kind = "positions"
                  THEN OrNum(OrNum(raw.quantity, raw.net_quantity), 0)
                  ELSE OrNum(raw.quantity, 0),
     average_price |->
         OrNum(OrNum(OrNum(raw.average_price, raw.buy_price), raw.price), 0),
     current_price |->
         OrNum(OrNum(OrNum(raw.current_price, raw.last_price), raw.ltp), 0),
     pnl |-> OrNum(OrNum(raw.pnl, raw.unrealised), 0),
     connection_id |-> conn]

FormatAll(kind, raws, conn) ==
    [i \in 1..Len(raws) |-> FormatItem(kind, raws[i], conn)]

\* Lines 258-261 and 659-661: the pnl the summary and the table row use.
ItemPnl(item) ==
    LET investment == Abs(item.quantity) * item.average_price
        currentValue == Abs(item.quantity) * item.current_price
    IN IF item.pnl # 0 THEN item.pnl ELSE currentValue - investment

Max(a, b) == IF a > b THEN a ELSE b
Min(a, b) == IF a < b THEN a ELSE b

NoSummary ==
    [total_pnl |-> 0, total_investment |-> 0, total_current_value |-> 0,
     total_positions |-> 0, profitable_positions |-> 0, loss_positions |-> 0,
     largest_gain |-> 0, largest_loss |-> 0, nonNull |-> FALSE]

\* calculatePnLSummary, lines 241-277: the forEach over the first n items.
RECURSIVE SummaryOf(_, _)
SummaryOf(data, n) ==
    IF n = 0
    THEN [NoSummary EXCEPT !.total_positions = Len(data), !.nonNull = TRUE]
    ELSE LET sum == SummaryOf(data, n - 1)
             item == data[n]
             pnl == ItemPnl(item)
         IN [sum EXCEPT
                !.total_pnl = @ + pnl,
                !.total_investment = @ + Abs(item.quantity) * item.average_price,
                !.total_current_value = @ + Abs(item.quantity) * item.current_price,
                !.profitable_positions = IF pnl > 0 THEN @ + 1 ELSE @,
                !.largest_gain = IF pnl > 0 THEN Max(@, pnl) ELSE @,
                !.loss_positions = IF pnl < 0 THEN @ + 1 ELSE @,
                !.largest_loss = IF pnl < 0 THEN Min(@, pnl) ELSE @]

CalculatePnLSummary(data) ==
    IF Len(data) = 0 THEN NoSummary ELSE SummaryOf(data, Len(data))

\* A fetch without the filter of lines 167 and 226.
KeepAll(items) == items

\* Lines 167 and 226: items with a zero quantity are dropped.
NonZero(items) == SelectSeq(items, LAMBDA it : Abs(it.quantity) > 0)

Fetches == 1..MaxFetches

\* The fetch slots of the component; SpecView uses those of Fetches, SpecLive
\* all of them, so that a refresh can start while another is in flight.
FetchSlots == 1..(IF MaxOverlap > MaxFetches THEN MaxOverlap ELSE MaxFetches)

NoStatuses == [id \in ConnIds |-> "unset"]

\* One run of fetchPositionsData / fetchHoldingsData: the connections still
\* to ask (the head is being awaited), allPositions and connectionStatuses.
IdleFetch ==
    [pc |-> "idle", kind |-> "none", queried |-> <<>>, queue |-> <<>>,
     all |-> <<>>, statuses |-> NoStatuses, answers |-> <<>>,
     byTimer |-> FALSE]

\* The component after its first render (lines 51-66).
NoView ==
    [loaded |-> FALSE, brokerConnections |-> <<>>, selectedBroker |-> "all",
     activeTab |-> "positions", positions |-> <<>>, holdings |-> <<>>,
     connectionStatus |-> NoStatuses, pnlSummary |-> NoSummary,
     fetches |-> [f \in FetchSlots |-> IdleFetch],
     mounted |-> TRUE, isLiveUpdating |-> FALSE, updateInterval |-> 5000,
     nextUpdateIn |-> 0, intervalRef |-> 0, countdownRef |-> 0,
     timers |-> {}, elapsed |-> 0]

\* What brokerAPI.getPositions / getHoldings can turn out as: it throws, the
\* answer has no list, or it has a list.
RawItems ==
    {[NoRaw EXCEPT !.symbol = "A", !.quantity = 2, !.average_price = 3,
                   !.current_price = 5, !.pnl = 4],
     [NoRaw EXCEPT !.symbol = "A", !.quantity = 2, !.average_price = 3,
                   !.current_price = 5],
     [NoRaw EXCEPT !.symbol = "A", !.quantity = 0 - 2, !.average_price = 3,
                   !.current_price = 5],
     [NoRaw EXCEPT !.symbol = "A", !.quantity = 2, !.average_price = 3,
                   !.current_price = 5, !.pnl = 0],
     [NoRaw EXCEPT !.tradingsymbol = "B", !.net_quantity = 2, !.buy_price = 3,
                   !.ltp = 5, !.unrealised = 0 - 4],
     [NoRaw EXCEPT !.symbol = "A", !.quantity = 0, !.average_price = 3,
                   !.current_price = 5, !.pnl = 4],
     [NoRaw EXCEPT !.symbol = "A", !.quantity = 0, !.net_quantity = 2,
                   !.average_price = 3, !.current_price = 0, !.ltp = 5,
                   !.pnl = 4]}

Answers ==
    {[kind |-> "throw", list |-> <<>>], [kind |-> "nolist", list |-> <<>>],
     [kind |-> "list", list |-> <<>>]}
    \cup {[kind |-> "list", list |-> <<r>>] : r \in RawItems}

\* Lines 124-126: the connections a fetch asks.
ActiveConnections(v) ==
    SelectSeq(v.brokerConnections,
              LAMBDA id : v.selectedBroker = "all" \/ DecStr(id) = v.selectedBroker)

\* Lines 166-172 (226-231): the loop is over, the state is set.
FinishFetch(v, f, ft) ==
    LET shown == NonZero(ft.all)
        v1 == IF ft.kind = "positions" THEN [v EXCEPT !.positions = shown]
              ELSE [v EXCEPT !.holdings = shown]
    IN [v1 EXCEPT !.connectionStatus = ft.statuses,
                  !.pnlSummary = CalculatePnLSummary(shown),
                  !.fetches[f] = [ft EXCEPT !.pc = "done"]]

\* fetchPositionsData / fetchHoldingsData up to the first await (lines
\* 122-140, 182-200), in fetch slot f.
BeginFetch(v, f, kind) ==
    LET active == ActiveConnections(v)
    IN IF Len(active) = 0
       THEN IF kind = "positions"
            THEN [v EXCEPT !.positions = <<>>, !.pnlSummary = NoSummary]
            ELSE [v EXCEPT !.holdings = <<>>, !.pnlSummary = NoSummary]
       ELSE [v EXCEPT !.fetches[f] =
                          [IdleFetch EXCEPT !.pc = "await", !.kind = kind,
                                            !.queried = active, !.queue = active]]

FreeFetch(f) ==
    /\ view.fetches[f].pc = "idle"
    /\ \A g \in FetchSlots : g < f => view.fetches[g].pc # "idle"

\* A stopLiveUpdates that leaves the timer running.
KeepTimers(v) == v

\* stopLiveUpdates, lines 315-320. A ref of 0 is null; timers holds the
\* interval timers the runtime has scheduled and not cleared.
StopLiveUpdates(v) ==
    IF v.intervalRef # 0
    THEN [v EXCEPT !.timers = {t \in @ : t.h # v.intervalRef}, !.intervalRef = 0]
    ELSE v

\* stopCountdown, lines 322-328.
StopCountdown(v) ==
    LET v1 == IF v.countdownRef # 0
              THEN [v EXCEPT !.timers = {t \in @ : t.h # v.countdownRef},
                             !.countdownRef = 0]
              ELSE v
    IN [v1 EXCEPT !.nextUpdateIn = 0]

\* The handle setInterval returns: one no scheduled timer has.
NewHandle(ts) == CHOOSE h \in 1..(Cardinality(ts) + 1) : \A t \in ts : t.h # h

\* A startCountdown that does not clear the countdown it replaces.
StartCountdownOverOld(v) ==
    LET h == NewHandle(v.timers)
    IN [v EXCEPT !.timers = @ \cup {[h |-> h, kind |-> "countdown"]},
                 !.countdownRef = h, !.elapsed = 0]

\* startCountdown, lines 303-313; elapsed counts the seconds the new
\* countdown timer has ticked.
StartCountdown(v) ==
    LET v1 == StopCountdown(v)
        h == NewHandle(v1.timers)
    IN [v1 EXCEPT !.timers = @ \cup {[h |-> h, kind |-> "countdown"]},
                  !.countdownRef = h, !.elapsed = 0]

\* startLiveUpdates, lines 279-301.
StartLiveUpdates(v) ==
    LET v1 == StopCountdown(StopLiveUpdates(v))
    IN IF Len(v1.brokerConnections) = 0
       THEN v1
       ELSE LET v2 == StartCountdown(
                          [v1 EXCEPT !.nextUpdateIn = v1.updateInterval \div 1000])
                h == NewHandle(v2.timers)
            IN [v2 EXCEPT !.timers = @ \cup {[h |-> h, kind |-> "update"]},
                          !.intervalRef = h]

\* The effect of lines 78-89 runs again because one of its dependencies
\* changed: the cleanup of its last run, then its body.
LiveEffect(v) ==
    LET c == StopCountdown(StopLiveUpdates(v))
    IN IF c.isLiveUpdating THEN StartLiveUpdates(c) ELSE StopLiveUpdates(c)

\* fetchInitialData (lines 102-120): getConnections answered with conns, or
\* threw (conns empty). Its fetchPositionsData is the one of the first
\* render, whose brokerConnections is the empty initial list: it clears
\* positions and the summary and returns.
FetchInitialData(conns) ==
    /\ view.mounted
    /\ ~view.loaded
    /\ view' = [view EXCEPT !.loaded = TRUE, !.brokerConnections = conns,
                            !.positions = IF Len(conns) > 0 THEN <<>> ELSE @,
                            !.pnlSummary = IF Len(conns) > 0 THEN NoSummary ELSE @]
    /\ UNCHANGED <<serviceVars, gen, proc, auth>>

\* The user picks a broker or a tab; the effect of lines 78-89 restarts the
\* live updates and the effect of lines 92-100 fetches for the new selection
\* when there are connections.
Select(f, broker, tab) ==
    /\ view.mounted
    /\ view.loaded
    /\ <<broker, tab>> # <<view.selectedBroker, view.activeTab>>
    /\ FreeFetch(f)
    /\ LET v == LiveEffect([view EXCEPT !.selectedBroker = broker,
                                        !.activeTab = tab])
       IN view' = IF Len(v.brokerConnections) > 0 THEN BeginFetch(v, f, tab) ELSE v
    /\ UNCHANGED <<serviceVars, gen, proc, auth>>

\* handleManualRefresh, lines 339-346.
ManualRefresh(f) ==
    /\ view.mounted
    /\ view.loaded
    /\ FreeFetch(f)
    /\ view' = BeginFetch(view, f, view.activeTab)
    /\ UNCHANGED <<serviceVars, gen, proc, auth>>

\* A loop whose inner catch is missing: a throw leaves the function through
\* the outer catch of lines 174-179, nothing is set.
AfterAnswerAborts(ft, a) ==
    LET conn == Head(ft.queue)
    IN IF a.kind = "throw"
       THEN [ft EXCEPT !.queue = <<>>, !.answers = Append(@, a), !.all = <<>>,
                       !.statuses = NoStatuses]
       ELSE [ft EXCEPT
                !.queue = Tail(@),
                !.answers = Append(@, a),
                !.statuses[conn] = "true",
                !.all = IF a.kind = "list" /\ Len(a.list) > 0
                        THEN @ \o FormatAll(ft.kind, a.list, conn) ELSE @]

\* One turn of the loop of lines 138-164 (198-223): the awaited call for the
\* head of the queue settled with answer a.
AfterAnswer(ft, a) ==
    LET conn == Head(ft.queue)
    IN [ft EXCEPT
           !.queue = Tail(@),
           !.answers = Append(@, a),
           !.statuses[conn] = IF a.kind = "throw" THEN "false" ELSE "true",
           !.all = IF a.kind = "list" /\ Len(a.list) > 0
                   THEN @ \o FormatAll(ft.kind, a.list, conn) ELSE @]

\* The awaited brokerAPI call of fetch f settles with answer a; after the
\* last connection the state is set.
FetchReturn(f, a) ==
    /\ view.fetches[f].pc = "await"
    /\ LET ft == view.fetches[f]
           ft1 == AfterAnswer(ft, a)
       IN view' = IF Len(ft1.queue) > 0
                  THEN [view EXCEPT !.fetches[f] = ft1]
                  ELSE IF view.mounted
                  THEN FinishFetch(view, f, ft1)
                  ELSE [view EXCEPT !.fetches[f] = [ft1 EXCEPT !.pc = "done"]]
    /\ UNCHANGED <<serviceVars, gen, proc, auth>>

\* toggleLiveUpdates, lines 330-337, and the effect of lines 78-89 that the
\* new isLiveUpdating sets off.
ToggleLiveUpdates ==
    /\ view.mounted
    /\ view' = LiveEffect([view EXCEPT !.isLiveUpdating = ~@])
    /\ UNCHANGED <<serviceVars, gen, proc, auth>>

\* The interval select of lines 457-467, and the effect of lines 78-89.
SetUpdateInterval(ms) ==
    /\ view.mounted
    /\ ms # view.updateInterval
    /\ view' = LiveEffect([view EXCEPT !.updateInterval = ms])
    /\ UNCHANGED <<serviceVars, gen, proc, auth>>

\* The callback of the setInterval of lines 289-300 runs, the fetch it
\* starts taking slot f.
IntervalFires(f) ==
    /\ \E t \in view.timers : t.kind = "update"
    /\ FreeFetch(f)
    /\ LET b == BeginFetch(view, f, view.activeTab)
           b1 == IF b.fetches[f].pc = "await"
                 THEN [b EXCEPT !.fetches[f].byTimer = TRUE] ELSE b
       IN view' = IF view.mounted
                  THEN StartCountdown(
                           [b1 EXCEPT !.nextUpdateIn = view.updateInterval \div 1000])
                  ELSE view
    /\ UNCHANGED <<serviceVars, gen, proc, auth>>

\* The callback of the setInterval of lines 305-312 runs: a second passed.
CountdownTick ==
    /\ \E t \in view.timers : t.kind = "countdown"
    /\ view' = [view EXCEPT
                   !.nextUpdateIn = IF ~view.mounted THEN @
                                    ELSE IF @ <= 1 THEN 0 ELSE @ - 1,
                   !.elapsed = Min(@ + 1, view.updateInterval \div 1000)]
    /\ UNCHANGED <<serviceVars, gen, proc, auth>>

\* The component unmounts: the cleanups of lines 71-75 and 85-88.
Unmount ==
    /\ view.mounted
    /\ LET c == StopCountdown(StopLiveUpdates([view EXCEPT !.mounted = FALSE]))
       IN view' = StopCountdown(StopLiveUpdates(c))
    /\ UNCHANGED <<serviceVars, gen, proc, auth>>

\* -------------------------------------------------------- server process
OpenOrders == {1, 2, 3}

\* TrackedOrder, as persisted: one placed and not yet polled, and one that
\* was filled before this process started.
NewOrder ==
    [status |-> "PENDING", poll_attempt_count |-> 0, last_known_broker_status |-> ""]

ClosedOrder ==
    [status |-> "FILLED", poll_attempt_count |-> 0,
     last_known_broker_status |-> "COMPLETE"]

TerminalStatuses == {"FILLED", "REJECTED", "CANCELLED"}

\* What the broker can report for an order; WEIRD stands for any string the
\* lookup table does not hold.
RawStatuses == {"OPEN", "COMPLETE", "REJECTED", "CANCELED", "WEIRD"}

\* A table that takes an unknown raw status for a cancellation.
MapStatusUnknownCancelled(raw) ==
    CASE raw = "OPEN" -> "OPEN"
      [] raw = "COMPLETE" -> "FILLED"
      [] raw = "REJECTED" -> "REJECTED"
      [] OTHER -> "CANCELLED"

\* The per-broker lookup table from raw to canonical status.
MapStatus(raw) ==
    CASE raw = "OPEN" -> "OPEN"
      [] raw = "COMPLETE" -> "FILLED"
      [] raw = "REJECTED" -> "REJECTED"
      [] raw = "CANCELED" -> "CANCELLED"
      [] OTHER -> "UNKNOWN"

\* How one getOrderStatus poll can settle: a status, a NetworkError, or a
\* broker error saying the order is unknown or invalid.
PollOutcomes ==
    {[kind |-> "status", raw |-> r] : r \in RawStatuses}
    \cup {[kind |-> "NetworkError", raw |-> ""], [kind |-> "OrderUnknown", raw |-> ""]}

NoPoll == [order |-> 0, kind |-> "none", raw |-> ""]

\* A policy that gives an order up on a transient failure.
AfterPollGivesUp(t, out) ==
    CASE out.kind = "NetworkError" ->
             [t EXCEPT !.status = "REJECTED", !.poll_attempt_count = @ + 1]
      [] out.kind = "OrderUnknown" -> [t EXCEPT !.status = "REJECTED"]
      [] OTHER ->
             LET mapped == MapStatus(out.raw)
             IN [t EXCEPT !.status = IF mapped = "UNKNOWN" THEN @ ELSE mapped,
                          !.last_known_broker_status = out.raw]

\* The status transition policy: the tracked order after a poll settled.
AfterPoll(t, out) ==
    CASE out.kind = "NetworkError" -> [t EXCEPT !.poll_attempt_count = @ + 1]
      [] out.kind = "OrderUnknown" -> [t EXCEPT !.status = "REJECTED"]
      [] OTHER ->
             LET mapped == MapStatus(out.raw)
             IN [t EXCEPT !.status = IF mapped = "UNKNOWN" THEN @ ELSE mapped,
                          !.last_known_broker_status = out.raw]

\* A service that keeps every order in the poll set.
StaysPolledAlways(t) == TRUE

\* An order stays in the active poll set until its status is terminal.
StaysPolled(t) == t.status \notin TerminalStatuses

\* The process once bootstrap() has registered the two process handlers and
\* waits for initDatabase (lines 23-98). polling is the set of orders the
\* order status service polls, calls the order of the calls that matter.
\* orders are the persisted TrackedOrders, timers the orders whose next poll
\* is scheduled, inflight those whose getOrderStatus is awaited, polls the
\* number of polls started, lastPoll the poll that settled last.
NoProc ==
    [phase |-> "db", openOrders |-> {}, polling |-> {}, fatal |-> "none",
     calls |-> <<>>, exitCode |-> Absent, startFailed |-> FALSE,
     orders |-> [o \in OpenOrders |-> ClosedOrder], timers |-> {},
     inflight |-> {}, polls |-> 0, lastPoll |-> NoPoll]

FatalConditions == {"uncaughtException", "unhandledRejection", "serverError"}

\* A stopAllPolling that empties the poll set and leaves the timers.
StopAllPollingLeavesTimers(p) ==
    [p EXCEPT !.polling = {}, !.calls = Append(@, "stopAllPolling")]

\* orderStatusService.stopAllPolling(): every poll timer is cancelled.
StopAllPolling(p) ==
    [p EXCEPT !.polling = {}, !.timers = {}, !.calls = Append(@, "stopAllPolling")]

\* process.exit(code).
Exit(p, code) ==
    [p EXCEPT !.phase = "exited", !.exitCode = code, !.calls = Append(@, "exit")]

\* A handler that only exits.
HandleFatalExitOnly(p, kind) == Exit([p EXCEPT !.fatal = kind], 1)

\* The three handlers (lines 24-28, 30-37, 169-176): log, stop the polling,
\* exit with code 1.
HandleFatal(p, kind) == Exit(StopAllPolling([p EXCEPT !.fatal = kind]), 1)

\* initDatabase resolves (lines 97-99); bootstrap goes on to await
\* startPollingForOpenOrders.
InitDatabaseOk ==
    /\ proc.phase = "db"
    /\ proc' = [proc EXCEPT !.phase = "startPolling"]
    /\ UNCHANGED <<serviceVars, gen, view, auth>>

\* initDatabase rejects (lines 100-103): logged, process.exit(1).
InitDatabaseFailed ==
    /\ proc.phase = "db"
    /\ proc' = Exit([proc EXCEPT !.fatal = "databaseInit"], 1)
    /\ UNCHANGED <<serviceVars, gen, view, auth>>

\* startPollingForOpenOrders settles (lines 105-111), having started the
\* polling of the orders in started: all open orders when it resolves (ok),
\* any part of them when it rejects, which is only logged. The rest of
\* bootstrap runs to app.listen and server.on (lines 113-176).
StartPolling(ok, started) ==
    /\ proc.phase = "startPolling"
    /\ started \subseteq proc.openOrders
    /\ ok => started = proc.openOrders
    /\ proc' = [proc EXCEPT !.phase = "listening", !.polling = started,
                            !.timers = started, !.startFailed = ~ok]
    /\ UNCHANGED <<serviceVars, gen, view, auth>>

\* The listen callback (lines 164-167).
Listening ==
    /\ proc.phase = "listening"
    /\ proc' = [proc EXCEPT !.phase = "serving"]
    /\ UNCHANGED <<serviceVars, gen, view, auth>>

\* The poll timer of order o fires: getOrderStatus is called.
PollTimerFires(o) ==
    /\ proc.phase \in {"listening", "serving"}
    /\ o \in proc.timers
    /\ proc.polls < MaxPolls
    /\ proc' = [proc EXCEPT !.timers = @ \ {o}, !.inflight = @ \cup {o},
                            !.polls = @ + 1]
    /\ UNCHANGED <<serviceVars, gen, view, auth>>

\* The poll of order o settles with out: the policy is applied, the order is
\* persisted, and the next poll is scheduled unless the order left the
\* poll set.
PollSettles(o, out) ==
    /\ proc.phase \in {"listening", "serving"}
    /\ o \in proc.inflight
    /\ LET t == AfterPoll(proc.orders[o], out)
       IN proc' = [proc EXCEPT
                      !.orders[o] = t,
                      !.inflight = @ \ {o},
                      !.polling = IF StaysPolled(t) THEN @ ELSE @ \ {o},
                      !.timers = IF StaysPolled(t) THEN @ \cup {o} ELSE @,
                      !.lastPoll = [order |-> o, kind |-> out.kind, raw |-> out.raw]]
    /\ UNCHANGED <<serviceVars, gen, view, auth>>

\* 'uncaughtException' (lines 24-28).
UncaughtException ==
    /\ proc.phase # "exited"
    /\ proc' = HandleFatal(proc, "uncaughtException")
    /\ UNCHANGED <<serviceVars, gen, view, auth>>

\* 'unhandledRejection' (lines 30-37).
UnhandledRejection ==
    /\ proc.phase # "exited"
    /\ proc' = HandleFatal(proc, "unhandledRejection")
    /\ UNCHANGED <<serviceVars, gen, view, auth>>

\* The server's 'error' event (lines 169-176), after app.listen.
ServerError ==
    /\ proc.phase \in {"listening", "serving"}
    /\ proc' = HandleFatal(proc, "serverError")
    /\ UNCHANGED <<serviceVars, gen, view, auth>>

\* ---------------------------------------------------------- utils/auth.ts
\* A token is kept as what split('.') makes of it, its segments in order. A
\* segment is base64 or not (atob throws on it), and text is what atob gives:
\* no text at all, text that is not JSON, or the JSON of null, of a number
\* or of an object whose exp is a number or is missing.
Text(json, exp) == [json |-> json, exp |-> exp]

Seg(text) == [b64 |-> TRUE, text |-> text]

NotBase64 == [b64 |-> FALSE, text |-> Text("empty", Absent)]

\* The exp values of the payloads: 0, past, present and future seconds.
Exps == 0..(MaxTime + 1)

PayloadSegs ==
    {NotBase64}
    \cup {Seg(Text(j, Absent)) : j \in {"empty", "none", "null", "number", "object"}}
    \cup {Seg(Text("object", e)) : e \in Exps}

\* The strings setToken is called with: '', and one to four segments, the
\* second being the payload.
Tokens ==
    LET h == Seg(Text("object", Absent))
    IN {<<Seg(Text("empty", Absent))>>}
       \cup {<<p>> : p \in PayloadSegs \ {Seg(Text("empty", Absent))}}
       \cup {<<h, p>> : p \in PayloadSegs}
       \cup {<<h, p, h>> : p \in PayloadSegs}
       \cup {<<h, p, h, h>> : p \in PayloadSegs}

\* localStorage without the item, and no call of isAuthenticated yet.
NoAuth == [stored |-> FALSE, authToken |-> <<>>, answer |-> "none"]

\* isAuthenticated, lines 13-33, at second t: "true" or "false". What throws
\* inside the try (atob, JSON.parse, the property read on null) is caught.
IsAuthenticated(a, t) ==
    IF ~a.stored \/ a.authToken = <<Seg(Text("empty", Absent))>>
    THEN "false"
    ELSE IF Len(a.authToken) # 3
    THEN "false"
    ELSE LET part == a.authToken[2]
         IN IF ~part.b64 \/ part.text.json \in {"empty", "none"}
            THEN "false"
            ELSE IF part.text.json = "null"
            THEN "false"
            ELSE IF part.text.json = "object" /\ ~FalsyNum(part.text.exp)
            THEN IF part.text.exp > t THEN "true" ELSE "false"
            ELSE "true"

\* setToken, lines 5-7.
SetToken(token) ==
    /\ auth' = [stored |-> TRUE, authToken |-> token, answer |-> "none"]
    /\ UNCHANGED <<serviceVars, gen, view, proc>>

\* removeToken, lines 9-11.
RemoveToken ==
    /\ auth' = NoAuth
    /\ UNCHANGED <<serviceVars, gen, view, proc>>

\* A caller asks isAuthenticated().
AskAuthenticated ==
    /\ auth' = [auth EXCEPT !.answer = IsAuthenticated(auth, now)]
    /\ UNCHANGED <<serviceVars, gen, view, proc>>

\* ------------------------------------------------------- specifications
\* The rows a connection id may have at the start: complete credentials
\* with no expiry (NULL) or expiring after time 1, or no row at all.
Rows(id) ==
    {Row(TRUE, TRUE, TRUE, TRUE, e, id) : e \in {0, 1}} \cup {NullRow}

\* The session manager after construction (line 11: an empty Map):
\* getShoonyaInstance and clearCachedInstance, the clock and the rows moving.
Init ==
    /\ shoonyaInstances = [id \in ConnIds |-> NoInst]
    /\ now = 1
    /\ calls = [c \in Calls |-> IdleCall]
    /\ handedOut = [id \in ConnIds |-> NoInst]
    /\ clearedSince = [id \in ConnIds |-> FALSE]
    /\ brokerOrders = {}
    /\ trackedOrders = {}
    /\ gen = NoGen
    /\ view = NoView
    /\ proc = NoProc
    /\ auth = NoAuth
    /\ db \in [ConnIds -> UNION {Rows(id) : id \in ConnIds}]
    /\ \A id \in ConnIds : db[id] \in Rows(id)

\* Sessions over connection records of every shape: api_secret or
\* access_token set or not, no expiry or one that passes.
AnyRows(id) ==
    {Row(TRUE, TRUE, s, t, e, id) : s \in BOOLEAN, t \in BOOLEAN, e \in {0, 1}}

InitRecords ==
    /\ shoonyaInstances = [id \in ConnIds |-> NoInst]
    /\ now = 1
    /\ calls = [c \in Calls |-> IdleCall]
    /\ handedOut = [id \in ConnIds |-> NoInst]
    /\ clearedSince = [id \in ConnIds |-> FALSE]
    /\ brokerOrders = {}
    /\ trackedOrders = {}
    /\ gen = NoGen
    /\ view = NoView
    /\ proc = NoProc
    /\ auth = NoAuth
    /\ db \in [ConnIds -> UNION {AnyRows(id) : id \in ConnIds}]
    /\ \A id \in ConnIds : db[id] \in AnyRows(id)

NextRecords ==
    \/ \E c \in Calls, id \in ConnIds : StartCall(c, "getSession", id, NoParams)
    \/ \E c \in Calls : DbReturn(c)
    \/ \E c \in Calls, resp \in Responses : ProbeReturn(c, resp)
    \/ Tick

SpecRecords == InitRecords /\ [][NextRecords]_vars

\* The session operations on two connections: getShoonyaInstance, logout
\* and clearCachedInstance, overlapping, with every answer of the broker.
NextSessions ==
    \/ \E c \in Calls, op \in {"getSession", "logout"}, id \in ConnIds :
           StartCall(c, op, id, NoParams)
    \/ \E c \in Calls : DbReturn(c)
    \/ \E c \in Calls, resp \in Responses : ProbeReturn(c, resp)
    \/ \E c \in Calls, resp \in Responses : HttpReturn(c, resp)
    \/ \E id \in ConnIds : ClearCall(id)

SpecSessions == Init /\ [][NextSessions]_vars

\* placeOrder, called directly and through the Router, on usable rows.
OrderCalls == 1..MaxOrderCalls

OrderParams ==
    {[tsym |-> "RELIANCE", trantype |-> "B", qty |-> 1, prctyp |-> t,
      prc |-> p, trgprc |-> g, prd |-> "C", norenordno |-> Absent] :
        t \in {"", "MKT", "LMT", "SL-LMT", "SL-MKT"}, p \in {Absent, 5},
        g \in {Absent, 4}}
    \cup {[NoParams EXCEPT !.trantype = "B", !.qty = 1, !.prctyp = "MKT",
                            !.prd = "C"],
          [NoParams EXCEPT !.tsym = "RELIANCE", !.qty = 1, !.prctyp = "MKT",
                            !.prd = "C"],
          [NoParams EXCEPT !.tsym = "RELIANCE", !.trantype = "B",
                            !.prctyp = "MKT", !.prd = "C"]}

OrderOps == {"placeOrder", "routerPlaceOrder"}

\* An instance an earlier, finished getShoonyaInstance(id) left in the cache.
Prior(id) == [oid |-> 100 + id, userId |-> id]

InitOrders ==
    /\ shoonyaInstances \in [ConnIds -> {NoInst} \cup {Prior(id) : id \in ConnIds}]
    /\ \A id \in ConnIds : shoonyaInstances[id] \in {NoInst, Prior(id)}
    /\ handedOut = shoonyaInstances
    /\ now = 1
    /\ calls = [c \in Calls |-> IdleCall]
    /\ clearedSince = [id \in ConnIds |-> FALSE]
    /\ brokerOrders = {}
    /\ trackedOrders = {}
    /\ gen = NoGen
    /\ view = NoView
    /\ proc = NoProc
    /\ auth = NoAuth
    /\ db = [id \in ConnIds |-> Row(TRUE, TRUE, TRUE, TRUE, 0, id)]

NextOrders ==
    \/ \E c \in OrderCalls, op \in OrderOps, id \in ConnIds, p \in OrderParams :
           StartCall(c, op, id, p)
    \/ \E c \in OrderCalls : DbReturn(c)
    \/ \E c \in OrderCalls, resp \in Responses : ProbeReturn(c, resp)
    \/ \E c \in OrderCalls, resp \in Responses : HttpReturn(c, resp)

SpecOrders == InitOrders /\ [][NextOrders]_vars

\* Every adapter operation, on a cached or an uncached session, with every
\* answer the broker can give; connection 2 has no usable row.
AdapterCalls == 1..MaxAdapterCalls

AdapterResponses == Responses \cup {"AuthNotOk"}

AdapterOps ==
    {"placeOrder", "modifyOrder", "cancelOrder", "getOrders", "getOrderStatus",
     "getPositions", "getHoldings", "getProfile", "logout"}

AdapterParams(op) ==
    CASE op = "placeOrder" ->
           {[NoParams EXCEPT !.tsym = "RELIANCE", !.trantype = "B", !.qty = 1,
                             !.prc = 5, !.prctyp = t, !.prd = d] :
               t \in {"", "MKT", "LMT", "BOGUS"}, d \in {"", "I", "C", "BOGUS"}}
      [] op = "modifyOrder" ->
           {NoParams, [NoParams EXCEPT !.norenordno = 7, !.qty = 2]}
      [] op \in {"cancelOrder", "getOrderStatus"} ->
           {[NoParams EXCEPT !.norenordno = 7]}
      [] OTHER -> {NoParams}

InitAdapter ==
    /\ shoonyaInstances \in [ConnIds -> {NoInst} \cup {Prior(id) : id \in ConnIds}]
    /\ \A id \in ConnIds : shoonyaInstances[id] \in {NoInst, Prior(id)}
    /\ handedOut = shoonyaInstances
    /\ now = 1
    /\ calls = [c \in Calls |-> IdleCall]
    /\ clearedSince = [id \in ConnIds |-> FALSE]
    /\ brokerOrders = {}
    /\ trackedOrders = {}
    /\ gen = NoGen
    /\ view = NoView
    /\ proc = NoProc
    /\ auth = NoAuth
    /\ db = [id \in ConnIds |->
                IF id = 1 THEN Row(TRUE, TRUE, TRUE, TRUE, 0, id) ELSE NullRow]

NextAdapter ==
    \/ \E c \in AdapterCalls, op \in AdapterOps, id \in ConnIds :
           \E p \in AdapterParams(op) : StartCall(c, op, id, p)
    \/ \E c \in AdapterCalls : DbReturn(c)
    \/ \E c \in AdapterCalls, resp \in AdapterResponses : ProbeReturn(c, resp)
    \/ \E c \in AdapterCalls, resp \in AdapterResponses : HttpReturn(c, resp)

SpecAdapter == InitAdapter /\ [][NextAdapter]_vars

\* The adapter with the scheduling the code can count on: the local
\* db.getAsync settles. Whether an axios.post settles is up to the broker:
\* the requests of lines 116-124 and 189-193 set no timeout.
SpecAdapterFair ==
    /\ InitAdapter
    /\ [][NextAdapter]_vars
    /\ WF_vars(\E c \in AdapterCalls : DbReturn(c))

\* The syntax generator: the form is edited and the syntax generated.
InitSyntax ==
    /\ shoonyaInstances = [id \in ConnIds |-> NoInst]
    /\ handedOut = [id \in ConnIds |-> NoInst]
    /\ now = 1
    /\ calls = [c \in Calls |-> IdleCall]
    /\ clearedSince = [id \in ConnIds |-> FALSE]
    /\ brokerOrders = {}
    /\ trackedOrders = {}
    /\ db = [id \in ConnIds |-> NullRow]
    /\ gen = NoGen
    /\ view = NoView
    /\ proc = NoProc
    /\ auth = NoAuth

NextSyntax ==
    \/ \E f \in {"order_type", "product", "price", "trigger_price"} :
           \E v \in FormValues(f) : SetCustomField(f, v)
    \/ GenerateSyntax

SpecSyntax == InitSyntax /\ [][NextSyntax]_vars

\* The Positions component: connections load, the user selects and
\* refreshes, the broker routes answer.
InitView ==
    /\ shoonyaInstances = [id \in ConnIds |-> NoInst]
    /\ handedOut = [id \in ConnIds |-> NoInst]
    /\ now = 1
    /\ calls = [c \in Calls |-> IdleCall]
    /\ clearedSince = [id \in ConnIds |-> FALSE]
    /\ brokerOrders = {}
    /\ trackedOrders = {}
    /\ db = [id \in ConnIds |-> NullRow]
    /\ gen = NoGen
    /\ view = NoView
    /\ proc = NoProc
    /\ auth = NoAuth

NextView ==
    \/ \E conns \in {<<>>, <<1>>, <<1, 2>>} : FetchInitialData(conns)
    \/ \E f \in Fetches, b \in {"all", "1", "2"}, t \in {"positions", "holdings"} :
           Select(f, b, t)
    \/ \E f \in Fetches : ManualRefresh(f)
    \/ \E f \in Fetches, a \in Answers : FetchReturn(f, a)

SpecView == InitView /\ [][NextView]_vars

\* The Positions component with live updates: the user also toggles them,
\* changes the interval and leaves the page, and the two timers fire.
LiveAnswers ==
    {[kind |-> "throw", list |-> <<>>]}
    \cup {[kind |-> "list", list |-> <<r>>] :
              r \in {[NoRaw EXCEPT !.symbol = "A", !.quantity = 2,
                                   !.average_price = 3, !.current_price = 5,
                                   !.pnl = 4],
                     [NoRaw EXCEPT !.tradingsymbol = "B", !.net_quantity = 2,
                                   !.buy_price = 3, !.ltp = 5,
                                   !.unrealised = 0 - 4]}}

NextLive ==
    \/ \E conns \in {<<>>, <<1>>} : FetchInitialData(conns)
    \/ \E f \in FetchSlots, b \in {"all", "1"}, t \in {"positions", "holdings"} :
           Select(f, b, t)
    \/ \E f \in FetchSlots : ManualRefresh(f)
    \/ \E f \in FetchSlots, a \in LiveAnswers : FetchReturn(f, a)
    \/ ToggleLiveUpdates
    \/ \E ms \in {3000, 5000} : SetUpdateInterval(ms)
    \/ \E f \in FetchSlots : IntervalFires(f)
    \/ CountdownTick
    \/ Unmount

SpecLive == InitView /\ [][NextLive]_vars

\* The server process from bootstrap() to its exit.
InitBoot ==
    /\ shoonyaInstances = [id \in ConnIds |-> NoInst]
    /\ handedOut = [id \in ConnIds |-> NoInst]
    /\ now = 1
    /\ calls = [c \in Calls |-> IdleCall]
    /\ clearedSince = [id \in ConnIds |-> FALSE]
    /\ brokerOrders = {}
    /\ trackedOrders = {}
    /\ db = [id \in ConnIds |-> NullRow]
    /\ gen = NoGen
    /\ view = NoView
    /\ auth = NoAuth
    /\ \E open \in SUBSET OpenOrders :
           proc = [NoProc EXCEPT
                      !.openOrders = open,
                      !.orders = [o \in OpenOrders |->
                                     IF o \in open THEN NewOrder ELSE ClosedOrder]]

NextBoot ==
    \/ InitDatabaseOk
    \/ InitDatabaseFailed
    \/ \E ok \in BOOLEAN, started \in SUBSET OpenOrders : StartPolling(ok, started)
    \/ Listening
    \/ \E o \in OpenOrders : PollTimerFires(o)
    \/ \E o \in OpenOrders, out \in PollOutcomes : PollSettles(o, out)
    \/ UncaughtException
    \/ UnhandledRejection
    \/ ServerError

SpecBoot == InitBoot /\ [][NextBoot]_vars

SessionOps == {"getSession"}

\* utils/auth.ts: the token is set and removed, time passes, callers ask.
NextAuth ==
    \/ \E token \in Tokens : SetToken(token)
    \/ RemoveToken
    \/ AskAuthenticated
    \/ Tick

SpecAuth == Init /\ [][NextAuth]_vars

Next ==
    \/ \E c \in Calls, op \in SessionOps, id \in ConnIds : StartCall(c, op, id, NoParams)
    \/ \E c \in Calls : DbReturn(c)
    \/ \E c \in Calls, resp \in Responses : ProbeReturn(c, resp)
    \/ \E id \in ConnIds : ClearCall(id)
    \/ Tick
    \/ \E id \in ConnIds : Deactivate(id)

Spec == Init /\ [][Next]_vars

\* ================================================================ claims
\* The step in which call c is made: getShoonyaInstance runs to its first
\* await, or to its return when the instance is cached.
Began(c) == calls[c].pc = "idle" /\ calls'[c].pc # "idle"

Range(q) == {q[i] : i \in 1..Len(q)}

\* C1: while getShoonyaInstance calls for one uncached connection id are in
\* flight together, one probe (UserDetails) is sent and the later callers
\* wait for the first: two probes for the same id are never in flight at
\* the same time.
C1_SingleProbe ==
    \A c1, c2 \in Calls :
        (c1 # c2 /\ calls[c1].id = calls[c2].id /\ calls[c1].pc = "probe")
            => calls[c2].pc # "probe"

\* C2: one live session per connection id: a getShoonyaInstance that
\* succeeds while an instance handed out earlier for the id has not been
\* evicted returns that same instance.
C2_OneLiveSession ==
    [][\A c \in Calls :
          (/\ calls[c].sess # "ok"
           /\ calls'[c].sess = "ok"
           /\ handedOut[calls'[c].id] # NoInst)
              => calls'[c].inst = handedOut[calls'[c].id]]_vars

\* C3: getShoonyaInstance never returns a cached instance of a connection
\* whose access_token_expires_at lies in the past.
C3_NoExpiredCachedSession ==
    [][\A c \in Calls :
          (Began(c) /\ calls'[c].path = "cached")
              => ~TokenExpired(db[calls'[c].id], now)]_vars

\* C4: placeOrder with prctyp LMT and no price sends no HTTP request at all
\* (no probe, no PlaceOrder) and ends in an error.
C4_LimitNeedsPrice ==
    \A c \in Calls :
        (/\ calls[c].op = "placeOrder"
         /\ calls[c].params.prctyp = "LMT"
         /\ calls[c].params.prc = Absent)
            => /\ calls[c].sent = <<>>
               /\ calls[c].pc = "done" => calls[c].result.status = "error"

\* C5: a stop order (SL-LMT, SL-MKT) without a trigger price is rejected
\* before any network call: no PlaceOrder request of a stop type leaves
\* without trgprc.
C5_StopNeedsTrigger ==
    \A c \in Calls :
        (/\ calls[c].op = "placeOrder"
         /\ calls[c].params.prctyp \in {"SL-LMT", "SL-MKT"}
         /\ calls[c].params.trgprc = Absent)
            => /\ "placeorder" \notin Range(calls[c].sent)
               /\ calls[c].pc = "done" => calls[c].result.status = "error"

C7_CacheOnlyAfterProbe ==
    [][/\ \A id \in ConnIds :
             (shoonyaInstances'[id] # shoonyaInstances[id]
                 /\ shoonyaInstances'[id] # NoInst)
                => \E c \in Calls : /\ calls[c].pc = "probe"
                                    /\ calls[c].id = id
                                    /\ calls'[c].probe = "Ok"
                                    /\ shoonyaInstances'[id] = calls[c].inst
       /\ \A c \in Calls :
             (calls[c].pc = "probe" /\ calls'[c].probe \in {"NotOk", "Transport"})
                => /\ calls'[c].pc = "done"
                   /\ calls'[c].sess = "fail"
                   /\ calls'[c].result.status = "error"
                   /\ Head(calls'[c].sessErr) = "InitFailed"
                   /\ ~CacheHas(calls[c].id)'
                   /\ GetShoonyaInstance(
                          [IdleCall EXCEPT !.op = "getSession",
                                           !.id = calls[c].id])'.path = "init"]_vars

\* C8 as stated: getShoonyaInstance for a connection id whose row is missing
\* or has is_active false does not succeed.
C8_UnusableRowFails ==
    [][\A c \in Calls :
          (Began(c) /\ ~RowUsable(calls'[c].id)) => calls'[c].sess # "ok"]_vars

\* C8 amended: getShoonyaInstance for a connection id with no cached
\* instance, whose row is missing or has is_active false when the call
\* loads it, fails without decrypting, without sending a probe and without
\* adding anything to the cache.
C8_UnusableRowAtLoad ==
    [][\A c \in Calls :
          (calls[c].pc = "db" /\ calls'[c].pc # "db" /\ ~RowUsable(calls[c].id))
             => /\ calls'[c].pc = "done"
                /\ calls'[c].sess = "fail"
                /\ calls'[c].result.status = "error"
                /\ calls'[c].decrypts = 0
                /\ calls'[c].probe = "none"
                /\ calls'[c].sent = calls[c].sent
                /\ \A i \in ConnIds :
                      shoonyaInstances'[i] \in {shoonyaInstances[i], NoInst}]_vars

C8_Witness ==
    \E c \in Calls : /\ calls[c].pc = "done"
                     /\ calls[c].sessErr = <<"NotFoundOrInactive">>
                     /\ db[calls[c].id].present
                     /\ ~db[calls[c].id].is_active

\* C9: once getShoonyaInstance has succeeded for an id and nothing was
\* evicted since, a later call returns that cached instance at once: no row
\* is loaded and no probe is sent.
C9_CachedSessionReused ==
    [][\A c \in Calls :
          (Began(c) /\ handedOut[calls'[c].id] # NoInst)
             => /\ calls'[c].path = "cached"
                /\ calls'[c].sess = "ok"
                /\ calls'[c].inst = handedOut[calls'[c].id]
                /\ calls'[c].loads = 0
                /\ calls'[c].probe = "none"
                /\ "userdetails" \notin Range(calls'[c].sent)]_vars

C9_Witness ==
    \E c1, c2 \in Calls :
        /\ c1 < c2
        /\ calls[c1].id = calls[c2].id
        /\ calls[c1].path = "init"
        /\ calls[c1].sess = "ok"
        /\ calls[c2].path = "cached"
        /\ calls[c2].pc = "done"
        /\ calls[c2].result.status = "ok"
        /\ calls[c2].inst = calls[c1].inst
        /\ calls[c2].sent = <<>>

\* C10: clearCachedInstance(id) leaves no instance cached for id and changes
\* nothing when none was cached; the next getShoonyaInstance(id) does not
\* use the cache: it loads the row and initializes again.
C10_ReinitAfterInvalidate ==
    [][/\ \A id \in ConnIds :
             /\ ClearCachedInstance(shoonyaInstances, id)[id] = NoInst
             /\ shoonyaInstances[id] = NoInst
                   => ClearCachedInstance(shoonyaInstances, id) = shoonyaInstances
       /\ \A c \in Calls :
             (Began(c) /\ clearedSince[calls'[c].id])
                => /\ calls'[c].path = "init"
                   /\ calls'[c].pc = "db"]_vars

\* C11: in the step in which logout(id) finishes, by returning or by
\* throwing, no session is cached for id; when getting the session or the
\* Logout request failed, the caller gets the error, and otherwise the
\* broker's answer.
C11_LogoutClearsCache ==
    [][\A c \in Calls :
          (calls'[c].op = "logout" /\ calls[c].pc # "done" /\ calls'[c].pc = "done")
             => /\ shoonyaInstances'[calls'[c].id] = NoInst
                /\ (calls'[c].sess = "fail" \/ calls'[c].http # "Ok")
                      => /\ calls'[c].result.status = "error"
                         /\ Head(calls'[c].result.err) = "LogoutFailed"
                /\ (calls'[c].sess = "ok" /\ calls'[c].http = "Ok")
                      => calls'[c].result.status = "ok"]_vars

C11_Witness ==
    \E c \in Calls : /\ calls[c].op = "logout"
                     /\ calls[c].pc = "done"
                     /\ calls[c].path = "cached"
                     /\ calls[c].http \in {"NotOk", "Transport"}
                     /\ calls[c].result.status = "error"
                     /\ shoonyaInstances[calls[c].id] = NoInst

\* C12: when a call made with a cached session is answered with an
\* auth-specific broker error (session token invalid or expired), the cached
\* session of that connection id is evicted.
C12_AuthErrorEvicts ==
    [][\A c \in Calls :
          (/\ calls[c].pc = "http"
           /\ calls[c].path = "cached"
           /\ calls'[c].http = "AuthNotOk")
             => shoonyaInstances'[calls[c].id] # calls[c].inst]_vars

BrokerRejections == {"NotOk", "AuthNotOk"}

\* C13: a well-formed broker error (stat not Ok), to the probe or to the
\* operation's own request, ends the call: nothing more is sent, the error
\* raised carries the broker's message; a call sends at most its probe and
\* one request.
C13_BrokerErrorNotRetried ==
    [][\A c \in Calls :
          /\ ((calls[c].pc = "http" /\ calls'[c].http \in BrokerRejections)
                 \/ (calls[c].pc = "probe" /\ calls'[c].probe \in BrokerRejections))
                => /\ calls'[c].pc = "done"
                   /\ calls'[c].sent = calls[c].sent
                   /\ calls'[c].result.status = "error"
                   /\ calls'[c].result.err[Len(calls'[c].result.err)]
                         \in {"emsg", "emsgSessionExpired"}
          /\ Len(calls'[c].sent) <= (IF calls'[c].path = "init" THEN 2 ELSE 1)]_vars

C13_Witness ==
    \E c \in Calls : /\ calls[c].op = "cancelOrder"
                     /\ calls[c].pc = "done"
                     /\ calls[c].http = "NotOk"
                     /\ calls[c].sent = <<"userdetails", "cancelorder">>
                     /\ calls[c].result.status = "error"

ClaimedOps == AdapterOps \ {"logout"}

\* C14: an adapter operation whose session could not be got, whose request
\* failed or whose answer is not a success payload ends by raising an
\* error: it returns a result only when the session was got and the broker
\* answered Ok.
C14_ErrorsNotSwallowed ==
    \A c \in Calls :
        (calls[c].pc = "done" /\ calls[c].op \in ClaimedOps)
           => /\ calls[c].result.status \in {"ok", "error"}
              /\ calls[c].result.status = "ok"
                    => (calls[c].sess = "ok" /\ calls[c].http = "Ok")
              /\ calls[c].result.status = "error"
                    => (calls[c].result.err # <<>> /\ calls[c].result.order_id = 0)

C14_Witness ==
    \E c \in Calls : /\ calls[c].op = "getOrderStatus"
                     /\ calls[c].pc = "done"
                     /\ calls[c].http = "Transport"
                     /\ calls[c].result.status = "error"

\* C15: the error raised keeps its class: a transport failure reaches the
\* caller as NetworkError, a broker rejection as BrokerError.
C15_ErrorClassKept ==
    \A c \in Calls :
        (calls[c].pc = "done" /\ calls[c].op \in ClaimedOps)
           => /\ "Transport" \in {calls[c].probe, calls[c].http}
                    => ErrorClass(calls[c].result.err) = "NetworkError"
              /\ ({calls[c].probe, calls[c].http} \cap BrokerRejections # {})
                    => ErrorClass(calls[c].result.err) = "BrokerError"

\* The order types and products of the Shoonya API (comments of lines
\* 380-382).
KnownPrctyps == {"MKT", "LMT", "SL-LMT", "SL-MKT"}
KnownPrds == {"I", "C", "M"}

\* C17: placeOrder sends an order only when the caller named a known order
\* type and a known product, and sends those: a missing or unknown value is
\* rejected, never replaced by MKT or I.
C17_NoSilentDefault ==
    \A c \in Calls :
        (calls[c].op = "placeOrder" /\ "placeorder" \in Range(calls[c].sent))
           => /\ calls[c].params.prctyp \in KnownPrctyps
              /\ calls[c].params.prd \in KnownPrds
              /\ calls[c].order.prctyp = calls[c].params.prctyp
              /\ calls[c].order.prd = calls[c].params.prd

CanonicalOrderTypes == {"MARKET", "LIMIT", "SL", "SL-M"}
CanonicalProducts == {"MIS", "CNC", "NRML"}

\* C16: the Shoonya mapping gives every canonical order type and every
\* canonical product a code of its own: two different canonical values
\* never share a code, so a stop order is not mapped to MKT and NRML is not
\* mapped to I.
C16_MappingTotal ==
    gen.generated
       => /\ \A t \in CanonicalOrderTypes \ {gen.customFields.order_type} :
                gen.customFields.order_type \in CanonicalOrderTypes
                   => gen.example.order_type # ShoonyaOrderType(t)
          /\ \A d \in CanonicalProducts \ {gen.customFields.product} :
                gen.customFields.product \in CanonicalProducts
                   => gen.example.product # ShoonyaProduct(d)

\* What the same answers give when only the connections that answered are
\* counted: the first n connections of a fetch.
RECURSIVE FromAnswered(_, _, _, _)
FromAnswered(kind, queried, answers, n) ==
    IF n = 0 THEN <<>>
    ELSE FromAnswered(kind, queried, answers, n - 1)
         \o (IF answers[n].kind = "list"
             THEN FormatAll(kind, answers[n].list, queried[n]) ELSE <<>>)

StatusOf(ft, id) ==
    IF \E i \in 1..Len(ft.queried) : ft.queried[i] = id
    THEN LET i == CHOOSE j \in 1..Len(ft.queried) : ft.queried[j] = id
         IN IF ft.answers[i].kind = "throw" THEN "false" ELSE "true"
    ELSE "unset"

\* C18: when an aggregation over the queried connections ends, every
\* connection was asked whatever the earlier ones did, what is shown is the
\* data of the connections that answered, and the status map has one entry
\* for each queried connection and no other: true for those that answered,
\* false for those that threw.
C18_AggregationContinues ==
    [][\A f \in Fetches :
          (view.fetches[f].pc = "await" /\ view'.fetches[f].pc = "done") =>
              LET ft == view'.fetches[f]
                  shown == IF ft.kind = "positions" THEN view'.positions
                           ELSE view'.holdings
              IN /\ Len(ft.answers) = Len(ft.queried)
                 /\ shown = NonZero(FromAnswered(ft.kind, ft.queried, ft.answers,
                                                 Len(ft.queried)))
                 /\ \A id \in ConnIds :
                        view'.connectionStatus[id] = StatusOf(ft, id)]_vars

C18_Witness ==
    \E f \in Fetches :
        /\ view.fetches[f].pc = "done"
        /\ view.fetches[f].kind = "positions"
        /\ view.fetches[f].queried = <<1, 2>>
        /\ view.fetches[f].answers[1].kind = "throw"
        /\ view.fetches[f].answers[2].kind = "list"
        /\ Len(view.positions) = 1
        /\ view.positions[1].connection_id = 2
        /\ view.connectionStatus = [id \in ConnIds |-> IF id = 1 THEN "false" ELSE "true"]

\* The raw value behind a formatted field: the first alias the broker sent.
Supplied(a, b) == IF a # Absent THEN a ELSE b

\* C19: the pnl used for an item is the value the broker supplied, a
\* supplied 0 included, and otherwise (current_price - average_price) *
\* quantity with the quantity signed.
C19_PnlAsSupplied ==
    \A f \in Fetches :
        view.fetches[f].pc = "done" =>
            \A i \in 1..Len(view.fetches[f].answers) :
                \A n \in 1..Len(view.fetches[f].answers[i].list) :
                    LET raw == view.fetches[f].answers[i].list[n]
                        item == FormatItem(view.fetches[f].kind, raw,
                                           view.fetches[f].queried[i])
                        supplied == Supplied(raw.pnl, raw.unrealised)
                    IN ItemPnl(item) =
                           IF supplied # Absent THEN supplied
                           ELSE (item.current_price - item.average_price)
                                * item.quantity

\* C20: when the process has exited on an uncaught exception, an unhandled
\* rejection or a server error, stopAllPolling was called before exit was,
\* and the exit code is not 0.
C20_StopBeforeExit ==
    (proc.phase = "exited" /\ proc.fatal \in FatalConditions) =>
        /\ \E i, j \in 1..Len(proc.calls) :
               /\ i < j
               /\ proc.calls[i] = "stopAllPolling"
               /\ proc.calls[j] = "exit"
        /\ proc.exitCode # Absent
        /\ proc.exitCode # 0

C20_Witness ==
    /\ proc.phase = "exited"
    /\ proc.fatal = "serverError"
    /\ proc.openOrders # {}
    /\ proc.calls = <<"stopAllPolling", "exit">>
    /\ proc.exitCode = 1

\* C21: when startPollingForOpenOrders failed at boot, the process stops
\* with the polling stopped: the server is never listening or serving after
\* a failed start.
C21_FailedStartStops ==
    proc.startFailed =>
        /\ proc.phase = "exited"
        /\ proc.polling = {}

StopCalled(p) == \E i \in 1..Len(p.calls) : p.calls[i] = "stopAllPolling"

\* C22: once stopAllPolling has been called no poll timer is pending and no
\* poll is started for any tracked order.
C22_NoPollAfterStop ==
    [][StopCalled(proc') =>
           /\ proc'.timers = {}
           /\ proc'.inflight \subseteq proc.inflight
           /\ proc'.polls = proc.polls]_vars

C22_Witness ==
    /\ StopCalled(proc)
    /\ ~proc.startFailed
    /\ proc.polls > 0
    /\ proc.timers = {}
    /\ \E o \in proc.openOrders :
           /\ o \notin proc.inflight
           /\ proc.orders[o].status \notin TerminalStatuses

\* The step in which the poll of order o settles.
Settled(o) == o \in proc.inflight /\ o \notin proc'.inflight /\ proc'.lastPoll.order = o

KnownRawStatuses == {"OPEN", "COMPLETE", "REJECTED", "CANCELED"}

TerminalRawStatuses == {"COMPLETE", "REJECTED", "CANCELED"}

\* C23: a poll that reports a raw status mapping to FILLED, REJECTED or
\* CANCELLED persists that status and takes the order out of the poll set;
\* an order in a terminal status is never polled again and its status does
\* not change.
C23_TerminalIsFinal ==
    [][\A o \in OpenOrders :
          /\ (Settled(o) /\ proc'.lastPoll.kind = "status"
                /\ proc'.lastPoll.raw \in TerminalRawStatuses) =>
                 /\ proc'.orders[o].status \in TerminalStatuses
                 /\ proc'.orders[o].status = MapStatus(proc'.lastPoll.raw)
                 /\ o \notin proc'.polling
                 /\ o \notin proc'.timers
          /\ proc.orders[o].status \in TerminalStatuses =>
                 /\ proc'.orders[o].status = proc.orders[o].status
                 /\ o \notin proc'.polling
                 /\ o \notin proc'.timers
                 /\ o \notin proc'.inflight]_vars

C23_Witness ==
    /\ proc.phase = "serving"
    /\ proc.lastPoll.kind = "status"
    /\ proc.lastPoll.raw = "COMPLETE"
    /\ proc.lastPoll.order \in proc.openOrders
    /\ proc.orders[proc.lastPoll.order].status = "FILLED"
    /\ proc.lastPoll.order \notin proc.polling
    /\ proc.polls < MaxPolls
    /\ proc.timers # {}

\* The part of C24 about a failed poll: the status is unchanged, the count
\* is one more, the order stays in the poll set with its next poll
\* scheduled.
FailedPollRetries(o) ==
    (Settled(o) /\ proc'.lastPoll.kind = "NetworkError") =>
        /\ proc'.orders[o].status = proc.orders[o].status
        /\ proc'.orders[o].poll_attempt_count = proc.orders[o].poll_attempt_count + 1
        /\ o \in proc'.polling
        /\ o \in proc'.timers

C25_UnknownOrderRejected ==
    [][\A o \in OpenOrders :
          /\ (Settled(o) /\ proc'.lastPoll.kind = "OrderUnknown") =>
                 /\ proc'.orders[o].status = "REJECTED"
                 /\ o \notin proc'.polling
                 /\ o \notin proc'.timers
          /\ (Settled(o) /\ proc'.lastPoll.kind = "status"
                /\ proc'.lastPoll.raw \notin KnownRawStatuses) =>
                 /\ proc'.orders[o].status \notin TerminalStatuses
                 /\ o \in proc'.polling
                 /\ o \in proc'.timers]_vars

C25_Witness ==
    /\ proc.phase = "serving"
    /\ proc.lastPoll.kind = "OrderUnknown"
    /\ proc.lastPoll.order \in proc.openOrders
    /\ proc.orders[proc.lastPoll.order].status = "REJECTED"
    /\ proc.lastPoll.order \notin proc.polling
    /\ proc.lastPoll.order \notin proc.timers

\* C26: every call that waits for the broker's answer to a probe, order or
\* query request ends, with a result or with an error.
C26_BrokerCallsEnd ==
    \A c \in AdapterCalls :
        (calls[c].pc \in {"probe", "http"}) ~> (calls[c].pc = "done")

\* C27: initializeShoonya on a record whose api_secret or access_token is
\* missing, or whose access_token_expires_at is set and in the past, fails
\* with nothing decrypted, no probe sent and the cache as it was.
C27_BadRecordFailsEarly ==
    [][\A c \in Calls :
          (/\ calls[c].pc = "db" /\ calls'[c].pc # "db"
           /\ RowUsable(calls[c].id)
           /\ \/ ~db[calls[c].id].api_secret
              \/ ~db[calls[c].id].access_token
              \/ /\ db[calls[c].id].access_token_expires_at # 0
                 /\ db[calls[c].id].access_token_expires_at < now)
             => /\ calls'[c].pc = "done"
                /\ calls'[c].sess = "fail"
                /\ calls'[c].result.status = "error"
                /\ calls'[c].decrypts = 0
                /\ calls'[c].probe = "none"
                /\ calls'[c].sent = calls[c].sent
                /\ shoonyaInstances' = shoonyaInstances]_vars

C27_Witness ==
    \E c \in Calls : /\ calls[c].pc = "done"
                     /\ calls[c].sessErr = InitError(<<"TokenExpired">>)
                     /\ db[calls[c].id].api_secret
                     /\ db[calls[c].id].access_token
                     /\ calls[c].decrypts = 0
                     /\ shoonyaInstances[calls[c].id] = NoInst

LacksRequired(p) == p.tsym = "" \/ p.trantype = "" \/ p.qty = Absent

\* C28: a placeOrder whose request lacks tsym, trantype or qty never sends a
\* PlaceOrder request and reaches no broker order; once it holds a session
\* it has ended, and it ends in an error.
C28_InvalidOrderNotSent ==
    \A c \in Calls :
        (calls[c].op \in OrderOps /\ LacksRequired(calls[c].params)) =>
            /\ "placeorder" \notin Range(calls[c].sent)
            /\ calls[c].order = NoOrder
            /\ calls[c].sess = "ok" => calls[c].pc = "done"
            /\ calls[c].pc = "done" => calls[c].result.status = "error"

C28_Witness ==
    \E c \in Calls :
        /\ calls[c].op = "placeOrder"
        /\ calls[c].params.qty = Absent
        /\ calls[c].params.tsym = "RELIANCE"
        /\ calls[c].sess = "ok"
        /\ calls[c].pc = "done"
        /\ calls[c].result = Failed(<<"OrderPlacementFailed", "QtyRequired">>)

\* C29: the PlaceOrder request of an LMT or SL-LMT order carries the
\* caller's price in prc, and prc is "0" only for MKT and SL-MKT orders.
C29_PriceForwarded ==
    \A c \in Calls :
        (calls[c].op \in OrderOps /\ "placeorder" \in Range(calls[c].sent)) =>
            /\ (calls[c].params.prctyp \in {"LMT", "SL-LMT"}
                  /\ calls[c].params.prc # Absent) =>
                   calls[c].order.prc = DecStr(calls[c].params.prc)
            /\ calls[c].order.prc = "0" =>
                   calls[c].order.prctyp \in {"MKT", "SL-MKT"}

\* C30: once clearCachedInstance(id) or logout(id) has removed the session
\* of an id, an initialization for that id that was in flight at that moment
\* never stores its session in the cache; the cache is filled again only by
\* a call started after the eviction.
C30_EvictionNotUndone ==
    [][\A c \in Calls :
          (/\ calls[c].pc = "probe"
           /\ calls'[c].pc # "probe"
           /\ calls[c].stale)
             => shoonyaInstances'[calls[c].id] # calls[c].inst]_vars

\* C31: clearCachedInstance(a) leaves the entry of every other id as it is,
\* and the entry of an id b changes only in a step of a call for b or in a
\* clearCachedInstance(b).
C31_OtherEntriesUntouched ==
    [][/\ \A a, b \in ConnIds :
             a # b => ClearCachedInstance(shoonyaInstances, a)[b] = shoonyaInstances[b]
       /\ \A b \in ConnIds :
             shoonyaInstances'[b] # shoonyaInstances[b] =>
                 \/ \E c \in Calls : calls'[c].pc # calls[c].pc /\ calls'[c].id = b
                 \/ /\ \A c \in Calls : calls'[c].pc = calls[c].pc
                    /\ shoonyaInstances' = ClearCachedInstance(shoonyaInstances, b)]_vars

C31_Witness ==
    \E c \in Calls, b \in ConnIds :
        /\ calls[c].op = "logout"
        /\ calls[c].pc = "done"
        /\ calls[c].id # b
        /\ shoonyaInstances[calls[c].id] = NoInst
        /\ shoonyaInstances[b] # NoInst

\* The first value present in an ordered alias list, the default when none
\* is.
RECURSIVE FirstPresent(_, _)
FirstPresent(aliases, default) ==
    IF Len(aliases) = 0 THEN default
    ELSE IF Head(aliases) # Absent THEN Head(aliases)
    ELSE FirstPresent(Tail(aliases), default)

\* C32: each field of a normalized position or holding is the first alias
\* present in the broker's row, in the fixed order, a 0 included, and the
\* default only when none is present.
C32_FirstPresentAlias ==
    \A f \in Fetches :
        view.fetches[f].pc = "done" =>
            \A i \in 1..Len(view.fetches[f].answers) :
                \A n \in 1..Len(view.fetches[f].answers[i].list) :
                    LET raw == view.fetches[f].answers[i].list[n]
                        item == FormatItem(view.fetches[f].kind, raw,
                                           view.fetches[f].queried[i])
                    IN /\ item.symbol =
                              IF raw.symbol # "" THEN raw.symbol ELSE raw.tradingsymbol
                       /\ item.quantity =
                              FirstPresent(<<raw.quantity, raw.net_quantity>>, 0)
                       /\ item.average_price =
                              FirstPresent(<<raw.average_price, raw.buy_price,
                                             raw.price>>, 0)
                       /\ item.current_price =
                              FirstPresent(<<raw.current_price, raw.last_price,
                                             raw.ltp>>, 0)

RECURSIVE SumPnl(_, _)
SumPnl(items, n) == IF n = 0 THEN 0 ELSE SumPnl(items, n - 1) + ItemPnl(items[n])

Greatest(S) == CHOOSE m \in S : \A x \in S : x <= m
Least(S) == CHOOSE m \in S : \A x \in S : m <= x

\* C33: when a fetch ends with a non-empty list, the summary set with it
\* counts the items of the list, its gains and losses are at most that
\* many, largest_gain is the greatest positive item pnl or 0, largest_loss
\* the least negative item pnl or 0, total_pnl the sum of the item pnls,
\* and no item of the list has quantity 0.
C33_SummaryOfShownItems ==
    [][\A f \in Fetches :
          (view.fetches[f].pc = "await" /\ view'.fetches[f].pc = "done") =>
              LET shown == IF view'.fetches[f].kind = "positions"
                           THEN view'.positions ELSE view'.holdings
                  sum == view'.pnlSummary
                  pnls == {ItemPnl(shown[i]) : i \in 1..Len(shown)}
              IN /\ \A i \in 1..Len(shown) : shown[i].quantity # 0
                 /\ Len(shown) = 0 => ~sum.nonNull
                 /\ Len(shown) > 0 =>
                        /\ sum.nonNull
                        /\ sum.total_positions = Len(shown)
                        /\ sum.profitable_positions + sum.loss_positions
                               <= sum.total_positions
                        /\ sum.profitable_positions =
                               Cardinality({i \in 1..Len(shown) : ItemPnl(shown[i]) > 0})
                        /\ sum.loss_positions =
                               Cardinality({i \in 1..Len(shown) : ItemPnl(shown[i]) < 0})
                        /\ sum.largest_gain >= 0
                        /\ sum.largest_gain = Greatest({x \in pnls : x > 0} \cup {0})
                        /\ sum.largest_loss <= 0
                        /\ sum.largest_loss = Least({x \in pnls : x < 0} \cup {0})
                        /\ sum.total_pnl = SumPnl(shown, Len(shown))]_vars

C33_Witness ==
    /\ view.pnlSummary.nonNull
    /\ Len(view.positions) = 2
    /\ view.pnlSummary.total_positions = 2
    /\ view.pnlSummary.profitable_positions = 1
    /\ view.pnlSummary.loss_positions = 1
    /\ view.pnlSummary.largest_gain = 4
    /\ view.pnlSummary.largest_loss = 0 - 4
    /\ view.pnlSummary.total_pnl = 0

\* The timers of one kind the runtime holds for the component.
TimersOf(kind) == {t \in view.timers : t.kind = kind}

\* C34: whatever the sequence of live toggles, interval changes, tab and
\* broker changes and timer firings, at most one live-update interval timer
\* and at most one countdown timer exist, and no timer handle is lost
\* without being cancelled: each scheduled timer is the one its ref holds.
C34_OneTimerEach ==
    /\ Cardinality(TimersOf("update")) <= 1
    /\ Cardinality(TimersOf("countdown")) <= 1
    /\ {t.h : t \in TimersOf("update")} = {view.intervalRef} \ {0}
    /\ {t.h : t \in TimersOf("countdown")} = {view.countdownRef} \ {0}

\* Live updates run with a changed interval, tab and broker filter, and the
\* interval timer has fired.
C34_Witness ==
    /\ view.isLiveUpdating
    /\ view.updateInterval = 3000
    /\ view.activeTab = "holdings"
    /\ view.selectedBroker = "1"
    /\ \E f \in FetchSlots : view.fetches[f].byTimer
    /\ Cardinality(TimersOf("update")) = 1
    /\ Cardinality(TimersOf("countdown")) = 1

\* C35: once the view is unmounted or live updating is switched off, the
\* interval timer and the countdown timer are cancelled, and no positions
\* or holdings fetch is started by a timer: a fetch a timer starts starts
\* while the view is mounted and live.
C35_StoppedMeansNoTimers ==
    [][/\ (~view'.mounted \/ ~view'.isLiveUpdating)
           => /\ view'.timers = {}
              /\ view'.intervalRef = 0
              /\ view'.countdownRef = 0
       /\ \A f \in FetchSlots :
              (view.fetches[f].pc = "idle" /\ view'.fetches[f].byTimer)
                  => view.mounted /\ view.isLiveUpdating]_vars

\* The view was left while live updates ran and a timer had fetched.
C35_Witness ==
    /\ ~view.mounted
    /\ view.isLiveUpdating
    /\ \E f \in FetchSlots : view.fetches[f].byTimer
    /\ view.timers = {}

\* What the view displays of the fetches.
Displayed(v) == <<v.positions, v.holdings, v.connectionStatus, v.pnlSummary>>

\* C36: when refreshes overlap, the displayed positions, connection-status
\* map and P&L summary are those of the most recently started fetch: a
\* fetch that finishes after a fetch of the same kind that started later
\* has finished does not change what is displayed. Slots are taken in the
\* order of the starts.
C36_NewestFetchWins ==
    [][\A f \in FetchSlots :
           (/\ view.fetches[f].pc = "await"
            /\ view'.fetches[f].pc = "done"
            /\ \E g \in FetchSlots : /\ g > f
                                      /\ view.fetches[g].pc = "done"
                                      /\ view.fetches[g].kind = view.fetches[f].kind)
               => Displayed(view') = Displayed(view)]_vars

\* C37: each time live updates start or an interval refresh fires, the
\* countdown nextUpdateIn is reset to updateInterval/1000 seconds and then
\* decreases by 1 per second down to 0, where it stays; it is never
\* negative. While both timers run, nextUpdateIn is updateInterval/1000
\* less the seconds the countdown has ticked since it was last started.
C37_CountdownFromInterval ==
    /\ view.nextUpdateIn >= 0
    /\ (view.intervalRef # 0 /\ view.countdownRef # 0)
           => view.nextUpdateIn
                  = Max(0, view.updateInterval \div 1000 - view.elapsed)

\* What isAuthenticated is to return at second t: a token is stored, it has
\* three segments, its payload segment decodes to JSON, and the payload has
\* no exp or an exp greater than t.
ToBeAuthenticated(a, t) ==
    /\ a.stored
    /\ Len(a.authToken) = 3
    /\ a.authToken[2].b64
    /\ a.authToken[2].text.json \in {"null", "number", "object"}
    /\ (a.authToken[2].text.exp = Absent \/ a.authToken[2].text.exp > t)

\* C38: isAuthenticated returns true exactly when a token is stored, has
\* three dot-separated parts, its payload part decodes to JSON and the
\* payload has no exp or an exp greater than the current time in seconds,
\* and false in every other case; after removeToken, when no token is
\* stored, it returns false until setToken is called again.
C38_AuthenticatedExactly ==
    [][(auth.answer = "none" /\ auth'.answer # "none")
           => (auth'.answer = "true" <=> ToBeAuthenticated(auth, now))]_vars
====
